---- MODULE Spec2Model ----
(***************************************************************************)
(* DeviceManager of buttplug-js (packages/buttplug/src/server/             *)
(* DeviceManager.ts): the device registry (_devices, _deviceCounter), the  *)
(* scan coordination over the subtype managers (_subtypeManagers) and the  *)
(* message routing of SendMessage.                                         *)
(*                                                                         *)
(* JavaScript runs the class on one cooperative thread: every event        *)
(* handler and every stretch of SendMessage between two awaits is one      *)
(* atomic action; other actions interleave only at an await.               *)
(*                                                                         *)
(* The subtype managers (backends) and the devices are collaborators whose *)
(* code is not part of the sources; they are modelled from their contract  *)
(* in the specification: a backend is Idle, becomes Scanning when its      *)
(* start completes successfully and Idle again on stop or on its own       *)
(* finish, which it signals with "scanningfinished".  A backend instance   *)
(* is registered at most once.                                             *)
(*                                                                         *)
(* The registry handlers read no scan state and the scan handlers read no  *)
(* registry state, so the two halves are explored as two specifications    *)
(* over the same variables: SpecRegistry and SpecScan.  Five further       *)
(* specifications add one concern each to one half: SpecStopAll (the       *)
(* unobserved results of the StopDeviceCmd broadcast), SpecShutdown (the   *)
(* Shutdown loop, with fairness for the awaited Disconnect), SpecStop (a   *)
(* StopScanning() that fails), SpecDetach (discoveries next to the scan    *)
(* coordination) and SpecFinish (scans that end by themselves, with        *)
(* fairness for the finish signals).                                       *)
(***************************************************************************)
EXTENDS Integers, Sequences, FiniteSets, TLC

\* ---------------------------------------------------------------- bounds
\* Number of SendMessage calls of a run (they may overlap at their awaits).
MaxCalls == 2
\* Cap on _deviceCounter: the number of admissions of a run.
MaxCounter == 2
\* Number of those calls that carry a message for the registry or a device.
MaxRoutes == 1

\* ------------------------------------------------------- the environment
Managers == {"B1", "B2"}
Devices == {"D1", "D2", "D3"}
Calls == 1..MaxCalls
\* The slots of the SendMessage calls that route a device-level message.
Routes == 1..MaxRoutes
\* ButtplugMessage.Id of the message of call c: every call has its own.
MsgId(c) == 6 + c

\* IButtplugDevice.Id: D1 and D2 are two instances with one identity token.
Id(d) == IF d = "D3" THEN "Y" ELSE "X"
\* IButtplugDevice.Name
Name(d) == CASE d = "D1" -> "toyX1" [] d = "D2" -> "toyX2" [] OTHER -> "toyY"
\* IButtplugDevice.AllowedMessageTypes
AllowedMessageTypes(d) ==
    CASE d = "D1" -> {"VibrateCmd", "StopDeviceCmd"}
      [] d = "D2" -> {"StopDeviceCmd"}
      [] OTHER -> {"VibrateCmd"}
\* IButtplugDevice.MessageSpecifications: the feature count of every command.
MessageSpecifications(d) ==
    {<<t, IF d = "D3" THEN 2 ELSE 1>> : t \in AllowedMessageTypes(d)}

FleetTypes == {"StartScanning", "StopScanning", "StopAllDevices", "RequestDeviceList"}
DeviceTypes == {"VibrateCmd", "StopDeviceCmd"}

\* The messages call c may route besides the four fleet-level kinds: the other
\* kinds with or without a DeviceIndex.
Messages(c) ==
    [Type : DeviceTypes, Id : {MsgId(c)}, HasIndex : {FALSE}, DeviceIndex : {0}]
    \cup [Type : DeviceTypes, Id : {MsgId(c)}, HasIndex : {TRUE}, DeviceIndex : 0..(MaxCounter - 1)]

VARIABLES
    arr,             \* the array object this._subtypeManagers refers to
    IsScanning,      \* IsScanning of every backend
    attached,        \* backends AddDeviceManager attached the three listeners to
    startCount,      \* times StartScanning() was invoked on each backend
    stopCount,       \* times StopScanning() was invoked on each backend
    _devices,        \* the Map index -> device, in insertion order
    _deviceCounter,
    listening,       \* devices carrying the OnDeviceRemoved listener
    sent,            \* the messages handed to _msgClosure, in order
    parsed,          \* the ParseMessage invocations on devices, in order
    calls,           \* the SendMessage calls: position, message, result
    shutdown,        \* the Shutdown call: position of its loop, Disconnect calls
    last             \* the operation that ran last

vars == <<arr, IsScanning, attached, startCount, stopCount, _devices,
          _deviceCounter, listening, sent, parsed, calls, shutdown, last>>

\* ---------------------------------------------------------------- helpers
Range(s) == {s[i] : i \in 1..Len(s)}

RECURSIVE SelectSeqBy(_, _)
\* the entries of s that are not entry number k
SelectSeqBy(s, k) ==
    IF Len(s) = 0 THEN <<>>
    ELSE IF k = 1 THEN Tail(s)
    ELSE <<Head(s)>> \o SelectSeqBy(Tail(s), k - 1)

NoCall == [pc |-> "free", msg |-> [Type |-> "none", Id |-> 0, HasIndex |-> FALSE, DeviceIndex |-> 0],
           pos |-> 0, detached |-> FALSE, own |-> <<>>, started |-> {},
           result |-> [kind |-> "none"]]

\* Shutdown before it is called; at is the key of the entry the loop is at.
NoShutdown == [pc |-> "idle", at |-> -1, device |-> "none", atCall |-> {},
               invoked |-> {}, confirmed |-> {}]

Op(op, mgr, device, call) == [op |-> op, mgr |-> mgr, device |-> device, call |-> call]

\* The array a StartScanning loop iterates: the for-of iterator keeps the array
\* object it started on.  While that object is still this._subtypeManagers it
\* is arr (a push is seen by the loop); after ClearDeviceManagers replaced it,
\* it is the call's own, frozen copy.
LoopArray(c) == IF calls[c].detached THEN calls[c].own ELSE arr

\* The backend a call's pending "await manager.StartScanning()" is about.
Awaited(c) == LoopArray(c)[calls[c].pos]

\* Backend contract: a start that completes successfully leaves b scanning.
Started(scanning, b) == [scanning EXCEPT ![b] = TRUE]

\* Backend contract: StopScanning() leaves the backend idle when it returns.
Stopped(scanning, S) == [b \in Managers |-> scanning[b] /\ b \notin S]

\* Backend contract: a backend that finishes by itself is idle.
Finished(scanning, b) == [scanning EXCEPT ![b] = FALSE]

\* The StopScanning() invocations counted.
CountStops(count, S) == [b \in Managers |-> IF b \in S THEN count[b] + 1 ELSE count[b]]

\* ------------------------------------------------------ DeviceManager.ts
\* Constructor (lines 19-21, 25-46): no device; in a browser with WebBluetooth
\* the constructor registers its WebBluetoothDeviceManager (line 41), here B1,
\* elsewhere no manager is registered.
Init ==
    /\ \/ arr = <<>> /\ attached = {}
       \/ arr = <<"B1">> /\ attached = {"B1"}
    /\ IsScanning = [b \in Managers |-> FALSE]
    /\ startCount = [b \in Managers |-> 0]
    /\ stopCount = [b \in Managers |-> 0]
    /\ _devices = <<>>
    /\ _deviceCounter = 0
    /\ listening = {}
    /\ sent = <<>>
    /\ parsed = <<>>
    /\ calls = [c \in Calls |-> NoCall]
    /\ shutdown = NoShutdown
    /\ last = Op("init", "none", "none", 0)

\* Variant: the loop ends after the first device.
NextEntryFirstOnly(devs, at) == IF at < 0 /\ Len(devs) > 0 THEN 1 ELSE 0

\* The iterator of this._devices.values(), line 53: a Map iterator goes through
\* the entries in insertion order, passes over an entry deleted before it got
\* there and reaches an entry set while the loop runs.  Keys are set in
\* growing order, so the next entry is the first with a key above the last
\* one visited; 0 when there is none.
NextEntry(devs, at) ==
    IF \E i \in 1..Len(devs) : devs[i].index > at
    THEN CHOOSE i \in 1..Len(devs) :
           /\ devs[i].index > at
           /\ \A j \in 1..(i - 1) : devs[j].index <= at
    ELSE 0

\* Shutdown, lines 53-55, from one position of the loop to its next await:
\* d.Disconnect() is invoked on the next entry, or the loop has ended.
Visit(sd) ==
    LET k == NextEntry(_devices, sd.at) IN
    IF k = 0
    THEN [sd EXCEPT !.pc = "done", !.device = "none"]
    ELSE [sd EXCEPT !.pc = "await", !.at = _devices[k].index,
                    !.device = _devices[k].device,
                    !.invoked = @ \cup {_devices[k].device}]

\* Shutdown (lines 52-56) is called, up to its first await.
Shutdown ==
    /\ shutdown.pc = "idle"
    /\ shutdown' = Visit([shutdown EXCEPT
                             !.atCall = {_devices[i].device : i \in 1..Len(_devices)}])
    /\ last' = Op("Shutdown", "none", "none", 0)
    /\ UNCHANGED <<arr, IsScanning, attached, startCount, stopCount, _devices,
                   _deviceCounter, listening, sent, parsed, calls>>

\* The awaited Disconnect() of line 54 settles: the loop goes on when the
\* device confirms; Shutdown fails with the device's error when it fails.
DisconnectDone(outcome) ==
    /\ shutdown.pc = "await"
    /\ shutdown' = IF outcome = "Ok"
                   THEN Visit([shutdown EXCEPT !.confirmed = @ \cup {shutdown.device}])
                   ELSE [shutdown EXCEPT !.pc = "failed"]
    /\ last' = Op("DisconnectDone", "none", shutdown.device, 0)
    /\ UNCHANGED <<arr, IsScanning, attached, startCount, stopCount, _devices,
                   _deviceCounter, listening, sent, parsed, calls>>

\* ClearDeviceManagers (lines 58-61): this._subtypeManagers = [] is a NEW array;
\* a loop that is suspended on the old one keeps the old one.  The listeners of
\* the old managers are not removed.
ClearDeviceManagers ==
    /\ arr # <<>>
    /\ arr' = <<>>
    /\ calls' = [c \in Calls |->
                  IF calls[c].pc = "awaitStart" /\ ~calls[c].detached
                  THEN [calls[c] EXCEPT !.detached = TRUE, !.own = arr]
                  ELSE calls[c]]
    /\ last' = Op("ClearDeviceManagers", "none", "none", 0)
    /\ UNCHANGED <<IsScanning, attached, startCount, stopCount, _devices,
                   _deviceCounter, listening, sent, parsed, shutdown>>

\* AddDeviceManager (lines 63-71).
AddDeviceManager(b) ==
    /\ b \notin attached
    /\ arr' = Append(arr, b)
    /\ attached' = attached \cup {b}
    /\ last' = Op("AddDeviceManager", b, "none", 0)
    /\ UNCHANGED <<IsScanning, startCount, stopCount, _devices, _deviceCounter,
                   listening, sent, parsed, calls, shutdown>>

\* Variant: the stored devices are compared by instance instead of by Id.
AlreadyAddedByInstance(devs, d) == \E i \in 1..Len(devs) : devs[i].device = d

\* Variant: the duplicate check is missing.
AlreadyAddedUnchecked(devs, d) == FALSE

\* OnDeviceAdded, lines 154-159: is a live device with the same Id stored?
AlreadyAdded(devs, d) == \E i \in 1..Len(devs) : Id(devs[i].device) = Id(d)

\* Variant: the counter is not advanced.
NextCounterStuck(counter) == counter

\* OnDeviceAdded, lines 160-161.
NextCounter(counter) == counter + 1

\* OnDeviceAdded, line 162: Map.set of a new key appends in iteration order.
SetDevice(devs, index, d) == Append(devs, [index |-> index, device |-> d])

\* Variant: the entry is found by the identity token of the device.
FindDeviceById(devs, d) ==
    IF \E i \in 1..Len(devs) : Id(devs[i].device) = Id(d)
    THEN CHOOSE i \in 1..Len(devs) : Id(devs[i].device) = Id(d)
    ELSE 0

\* OnDeviceRemoved, lines 171-177: the position of the entry holding this
\* very instance (===), 0 when there is none (deviceIndex === null).
FindDevice(devs, d) ==
    IF \E i \in 1..Len(devs) : devs[i].device = d
    THEN CHOOSE i \in 1..Len(devs) :
           /\ devs[i].device = d
           /\ \A j \in 1..(i - 1) : devs[j].device # d
    ELSE 0

\* Variant: the entry stays in the map.
DeleteDeviceNone(devs, k) == devs

\* Variant: the whole map is cleared.
DeleteDeviceAll(devs, k) == <<>>

\* OnDeviceRemoved, line 182.
DeleteDevice(devs, k) == SelectSeqBy(devs, k)

\* Variant: some manager is always taken to be scanning.
AnyScanningAlways(mgrs, scanning) == TRUE

\* Variant: only the first manager is looked at.
AnyScanningFirst(mgrs, scanning) == Len(mgrs) > 0 /\ scanning[mgrs[1]]

\* OnScanningFinished, lines 189-193.
AnyScanning(mgrs, scanning) == \E i \in 1..Len(mgrs) : scanning[mgrs[i]]

\* OnDeviceAdded (lines 153-168), run for device on the signal of backend b.
OnDeviceAdded(b, d) ==
    /\ last' = Op("OnDeviceAdded", "none", d, 0)
    /\ IF AlreadyAdded(_devices, d)
       THEN UNCHANGED <<_devices, _deviceCounter, listening, sent>>
       ELSE /\ _deviceCounter < MaxCounter
            /\ _devices' = SetDevice(_devices, _deviceCounter, d)
            /\ _deviceCounter' = NextCounter(_deviceCounter)
            /\ listening' = listening \cup {d}
            /\ sent' = Append(sent, [Type |-> "DeviceAdded", DeviceIndex |-> _deviceCounter,
                                     DeviceName |-> Name(d),
                                     DeviceMessages |-> MessageSpecifications(d)])

\* OnDeviceRemoved (lines 170-185).
OnDeviceRemoved(b, d) ==
    /\ last' = Op("OnDeviceRemoved", "none", d, 0)
    /\ LET k == FindDevice(_devices, d) IN
       IF k = 0
       THEN UNCHANGED <<_devices, listening, sent>>
       ELSE /\ listening' = listening \ {d}
            /\ _devices' = DeleteDevice(_devices, k)
            /\ sent' = Append(sent, [Type |-> "DeviceRemoved",
                                     DeviceIndex |-> _devices[k].index])

\* A backend emits "deviceadded" (listener of line 67).
DeviceDiscovered(b, d) ==
    /\ b \in attached
    /\ OnDeviceAdded(b, d)
    /\ UNCHANGED <<arr, IsScanning, attached, startCount, stopCount, parsed, calls,
                   shutdown>>

\* A device emits "deviceremoved" (listener of line 164).
DeviceSelfRemoved(d) ==
    /\ d \in listening
    /\ OnDeviceRemoved("none", d)
    /\ UNCHANGED <<arr, IsScanning, attached, startCount, stopCount,
                   _deviceCounter, parsed, calls, shutdown>>

\* A backend emits "deviceremoved" (listener of line 69) for any device.
ManagerDeviceRemoved(b, d) ==
    /\ b \in attached
    /\ OnDeviceRemoved(b, d)
    /\ UNCHANGED <<arr, IsScanning, attached, startCount, stopCount,
                   _deviceCounter, parsed, calls, shutdown>>

\* A scanning backend finishes on its own: it goes idle and emits
\* "scanningfinished" (listener of line 70), which runs OnScanningFinished
\* (lines 187-195) within the same turn.
ScanningFinished(b) ==
    /\ b \in attached
    /\ IsScanning[b]
    /\ IsScanning' = Finished(IsScanning, b)
    /\ sent' = IF AnyScanning(arr, IsScanning')
               THEN sent
               ELSE Append(sent, [Type |-> "ScanningFinished"])
    /\ last' = Op("OnScanningFinished", b, "none", 0)
    /\ UNCHANGED <<arr, attached, startCount, stopCount, _devices,
                   _deviceCounter, listening, parsed, calls, shutdown>>

\* Variant: the check for an empty manager list is missing.
NoManagersUnchecked(mgrs) == FALSE

\* SendMessage, line 80: no manager to scan with.
NoManagers(mgrs) == Len(mgrs) = 0

\* Variant: line 89 is missing, scanning managers are started again.
NextToStartNoSkip(mgrs, from, scanning) == IF from <= Len(mgrs) THEN from ELSE 0

\* SendMessage, lines 88-89: the next position at or after from whose manager
\* is not scanning (the others are skipped), 0 when the loop is over.
NextToStart(mgrs, from, scanning) ==
    IF \E i \in from..Len(mgrs) : ~scanning[mgrs[i]]
    THEN CHOOSE i \in from..Len(mgrs) :
           /\ ~scanning[mgrs[i]]
           /\ \A j \in from..(i - 1) : scanning[mgrs[j]]
    ELSE 0

\* Variant: the catch stops every manager, scanning or not.
RollbackIdleToo(mgrs, scanning) == Range(mgrs)

\* Variant: the catch rethrows without stopping anything.
RollbackNothing(mgrs, scanning) == {}

\* SendMessage, lines 95-99: the managers the catch calls StopScanning() on,
\* those of this._subtypeManagers that are scanning.
Rollback(mgrs, scanning) == {b \in Range(mgrs) : scanning[b]}

\* SendMessage, lines 107-111: the managers StopScanning() is called on.
ToStop(mgrs, scanning) == {b \in Range(mgrs) : scanning[b]}

\* Variant: the check of the allowed message types is missing.
AllowsAll(d, type) == TRUE

\* SendMessage, line 142.
Allows(d, type) == type \in AllowedMessageTypes(d)

\* Variant: the index is taken as a position in the map.
LookupByPosition(devs, index) == IF index + 1 <= Len(devs) THEN index + 1 ELSE 0

\* SendMessage, line 135 and 141: Map.has / Map.get, 0 when there is no entry.
Lookup(devs, index) ==
    IF \E i \in 1..Len(devs) : devs[i].index = index
    THEN CHOOSE i \in 1..Len(devs) : devs[i].index = index
    ELSE 0

Error(class, why, id) == [kind |-> "Error", class |-> class, why |-> why, Id |-> id]
Ok(id) == [kind |-> "Ok", Id |-> id]

\* A call slot is taken in order, so that equal runs are not counted twice.
Free(c) ==
    /\ calls[c].pc = "free"
    /\ \A e \in Calls : e < c => calls[e].pc # "free"

\* The for-of loop of lines 88-103 from position from on: it runs to the next
\* "await manager.StartScanning()" (line 91) or to "return new Messages.Ok(id)"
\* (line 104).
StartLoop(c, call, mgrs, from, scanning) ==
    LET j == NextToStart(mgrs, from, scanning) IN
    IF j = 0
    THEN /\ calls' = [calls EXCEPT ![c] = [call EXCEPT !.pc = "done", !.result = Ok(call.msg.Id)]]
         /\ UNCHANGED startCount
    ELSE /\ calls' = [calls EXCEPT ![c] = [call EXCEPT !.pc = "awaitStart", !.pos = j]]
         /\ startCount' = [startCount EXCEPT ![mgrs[j]] = @ + 1]

\* SendMessage(StartScanning), lines 78-91, up to its first await.
SendStartScanning(c, id) ==
    LET m == [Type |-> "StartScanning", Id |-> id, HasIndex |-> FALSE, DeviceIndex |-> 0]
        call == [NoCall EXCEPT !.msg = m]
    IN
    /\ Free(c)
    /\ last' = Op("SendMessage", "none", "none", c)
    /\ IF NoManagers(arr)
       THEN /\ calls' = [calls EXCEPT ![c] = [call EXCEPT !.pc = "done",
                            !.result = Error("ButtplugDeviceException", "NoManagers", id)]]
            /\ UNCHANGED startCount
       ELSE StartLoop(c, call, arr, 1, IsScanning)
    /\ UNCHANGED <<arr, IsScanning, attached, stopCount, _devices, _deviceCounter,
                   listening, sent, parsed, shutdown>>

\* The awaited StartScanning() of a backend resolves: the backend is scanning,
\* and the loop goes on behind the await (lines 91, 88-104).
StartSucceeds(c) ==
    /\ calls[c].pc = "awaitStart"
    /\ IsScanning' = Started(IsScanning, Awaited(c))
    /\ last' = Op("StartSucceeds", Awaited(c), "none", c)
    /\ StartLoop(c, [calls[c] EXCEPT !.started = @ \cup {Awaited(c)}], LoopArray(c),
                 calls[c].pos + 1, IsScanning')
    /\ UNCHANGED <<arr, attached, stopCount, _devices, _deviceCounter, listening,
                   sent, parsed, shutdown>>

\* The awaited StartScanning() rejects: the catch of lines 92-101 stops every
\* scanning manager of this._subtypeManagers and rethrows.
StartFails(c) ==
    /\ calls[c].pc = "awaitStart"
    /\ IsScanning' = Stopped(IsScanning, Rollback(arr, IsScanning))
    /\ stopCount' = CountStops(stopCount, Rollback(arr, IsScanning))
    /\ calls' = [calls EXCEPT ![c].pc = "done",
                              ![c].result = [kind |-> "Thrown", mgr |-> Awaited(c),
                                             error |-> "StartFailure"]]
    /\ last' = Op("StartFails", Awaited(c), "none", c)
    /\ UNCHANGED <<arr, attached, startCount, _devices, _deviceCounter, listening,
                   sent, parsed, shutdown>>

\* SendMessage(StopScanning), lines 105-112.
SendStopScanning(c, id) ==
    LET m == [Type |-> "StopScanning", Id |-> id, HasIndex |-> FALSE, DeviceIndex |-> 0] IN
    /\ Free(c)
    /\ IsScanning' = Stopped(IsScanning, ToStop(arr, IsScanning))
    /\ stopCount' = CountStops(stopCount, ToStop(arr, IsScanning))
    /\ calls' = [calls EXCEPT ![c] = [NoCall EXCEPT !.msg = m, !.pc = "done", !.result = Ok(id)]]
    /\ last' = Op("SendMessage", "none", "none", c)
    /\ UNCHANGED <<arr, attached, startCount, _devices, _deviceCounter, listening,
                   sent, parsed, shutdown>>

\* SendMessage, lines 107-111, cut short: the scanning managers up to position p.
ToStopUpTo(mgrs, p, scanning) == {mgrs[i] : i \in {j \in 1..p : scanning[mgrs[j]]}}

\* SendMessage(StopScanning), lines 105-112, when StopScanning() of the scanning
\* manager at position p fails and leaves that manager scanning.  The call is
\* neither awaited nor guarded by a try: a failure that is thrown leaves the
\* loop and SendMessage; a failure that comes as a rejected promise is not
\* looked at, and the loop goes on.
SendStopScanningFails(c, id, p, thrown) ==
    LET m == [Type |-> "StopScanning", Id |-> id, HasIndex |-> FALSE, DeviceIndex |-> 0]
        called == IF thrown THEN ToStopUpTo(arr, p, IsScanning) ELSE ToStop(arr, IsScanning)
    IN
    /\ Free(c)
    /\ p \in 1..Len(arr)
    /\ IsScanning[arr[p]]
    /\ IsScanning' = Stopped(IsScanning, called \ {arr[p]})
    /\ stopCount' = CountStops(stopCount, called)
    /\ calls' = [calls EXCEPT ![c] = [NoCall EXCEPT !.msg = m, !.pc = "done",
                     !.result = IF thrown
                                THEN [kind |-> "Thrown", mgr |-> arr[p], error |-> "StopFailure"]
                                ELSE Ok(id)]]
    /\ last' = Op("SendMessage", arr[p], "none", c)
    /\ UNCHANGED <<arr, attached, startCount, _devices, _deviceCounter, listening,
                   sent, parsed, shutdown>>

\* Variant: only the first device of the map gets the command.
StopTargetsFirst(devs) == IF devs = <<>> THEN <<>> ELSE <<devs[1].device>>

\* this._devices.forEach(...), lines 115-118: the devices handed a StopDeviceCmd,
\* in the order of the map.
StopTargets(devs) == [i \in 1..Len(devs) |-> devs[i].device]

\* SendMessage(StopAllDevices), lines 113-119: forEach invokes ParseMessage of
\* every device with a new StopDeviceCmd; nothing waits for the results.
SendStopAllDevices(c, id) ==
    LET m == [Type |-> "StopAllDevices", Id |-> id, HasIndex |-> FALSE, DeviceIndex |-> 0]
        targets == StopTargets(_devices)
    IN
    /\ Free(c)
    /\ parsed' = parsed \o [i \in 1..Len(targets) |->
                    [device |-> targets[i], Type |-> "StopDeviceCmd", call |-> c,
                     routed |-> FALSE, state |-> "pending"]]
    /\ calls' = [calls EXCEPT ![c] = [NoCall EXCEPT !.msg = m, !.pc = "done", !.result = Ok(id)]]
    /\ last' = Op("SendMessage", "none", "none", c)
    /\ UNCHANGED <<arr, IsScanning, attached, startCount, stopCount, _devices,
                   _deviceCounter, listening, sent, shutdown>>

\* The promise of one async callback of lines 115-118 settles: the device's
\* ParseMessage has answered, or has failed.  No code holds the promise, so a
\* rejection is observed by nothing.
StopSettles(i, outcome) ==
    /\ i \in 1..Len(parsed)
    /\ ~parsed[i].routed
    /\ parsed[i].state = "pending"
    /\ parsed' = [parsed EXCEPT ![i].state = outcome]
    /\ last' = Op("StopSettles", "none", parsed[i].device, parsed[i].call)
    /\ UNCHANGED <<arr, IsScanning, attached, startCount, stopCount, _devices,
                   _deviceCounter, listening, sent, calls, shutdown>>

\* Variant: the newest device comes first.
ListDevicesNewestFirst(devs) ==
    [i \in 1..Len(devs) |->
        [DeviceIndex |-> devs[Len(devs) + 1 - i].index,
         DeviceName |-> Name(devs[Len(devs) + 1 - i].device),
         DeviceMessages |-> MessageSpecifications(devs[Len(devs) + 1 - i].device)]]

\* this._devices.forEach(...), lines 122-125: one DeviceInfoWithSpecifications
\* per entry, in the order of the map.
ListDevices(devs) ==
    [i \in 1..Len(devs) |->
        [DeviceIndex |-> devs[i].index,
         DeviceName |-> Name(devs[i].device),
         DeviceMessages |-> MessageSpecifications(devs[i].device)]]

\* SendMessage(RequestDeviceList), lines 120-126.
SendRequestDeviceList(c, id) ==
    LET m == [Type |-> "RequestDeviceList", Id |-> id, HasIndex |-> FALSE, DeviceIndex |-> 0] IN
    /\ Free(c)
    /\ calls' = [calls EXCEPT ![c] = [NoCall EXCEPT !.msg = m, !.pc = "done",
                     !.result = [kind |-> "DeviceList", Id |-> id,
                                 Devices |-> ListDevices(_devices)]]]
    /\ last' = Op("SendMessage", "none", "none", c)
    /\ UNCHANGED <<arr, IsScanning, attached, startCount, stopCount, _devices,
                   _deviceCounter, listening, sent, parsed, shutdown>>

\* SendMessage of any other message, lines 128-149, up to the await of line 149.
SendDeviceMessage(c, m) ==
    LET call == [NoCall EXCEPT !.msg = m]
        k == Lookup(_devices, m.DeviceIndex)
        fail(r) == /\ calls' = [calls EXCEPT ![c] = [call EXCEPT !.pc = "done", !.result = r]]
                   /\ UNCHANGED parsed
    IN
    /\ Free(c)
    /\ m.Type \notin FleetTypes
    /\ last' = Op("SendMessage", "none", "none", c)
    /\ IF ~m.HasIndex
       THEN fail(Error("ButtplugMessageException", "Unhandled", m.Id))
       ELSE IF k = 0
       THEN fail(Error("ButtplugDeviceException", "NoSuchDevice", m.Id))
       ELSE IF ~Allows(_devices[k].device, m.Type)
       THEN fail(Error("ButtplugDeviceException", "NotAllowed", m.Id))
       ELSE /\ calls' = [calls EXCEPT ![c] = [call EXCEPT !.pc = "awaitParse", !.pos = k]]
            /\ parsed' = Append(parsed, [device |-> _devices[k].device, Type |-> m.Type,
                                         call |-> c, routed |-> TRUE, state |-> "pending"])
    /\ UNCHANGED <<arr, IsScanning, attached, startCount, stopCount, _devices,
                   _deviceCounter, listening, sent, shutdown>>

\* The awaited ParseMessage of line 149 settles; SendMessage returns the
\* device's response, or fails with the device's error.
ParseDone(c, outcome) ==
    /\ calls[c].pc = "awaitParse"
    /\ calls' = [calls EXCEPT ![c].pc = "done",
                              ![c].result = [kind |-> "FromDevice", outcome |-> outcome,
                                             Id |-> calls[c].msg.Id]]
    /\ parsed' = [i \in 1..Len(parsed) |->
                    IF parsed[i].call = c /\ parsed[i].routed
                    THEN [parsed[i] EXCEPT !.state = IF outcome = "Ok" THEN "ok" ELSE "failed"]
                    ELSE parsed[i]]
    /\ last' = Op("ParseDone", "none", "none", c)
    /\ UNCHANGED <<arr, IsScanning, attached, startCount, stopCount, _devices,
                   _deviceCounter, listening, sent, shutdown>>

\* The registry and the routing of device messages.
NextRegistry ==
    \/ \E b \in Managers, d \in Devices : DeviceDiscovered(b, d)
    \/ \E d \in Devices : DeviceSelfRemoved(d)
    \/ \E b \in Managers, d \in Devices : ManagerDeviceRemoved(b, d)
    \/ \E c \in Routes : SendStopAllDevices(c, MsgId(c))
    \/ \E c \in Routes : SendRequestDeviceList(c, MsgId(c))
    \/ \E c \in Routes : \E m \in Messages(c) : SendDeviceMessage(c, m)
    \/ \E c \in Routes, o \in {"Ok", "Error"} : ParseDone(c, o)

SpecRegistry == Init /\ [][NextRegistry]_vars

\* The scan coordination over the backends.
NextScan ==
    \/ ClearDeviceManagers
    \/ \E b \in Managers : AddDeviceManager(b)
    \/ \E c \in Calls : SendStartScanning(c, MsgId(c))
    \/ \E c \in Calls : StartSucceeds(c)
    \/ \E c \in Calls : StartFails(c)
    \/ \E c \in Calls : SendStopScanning(c, MsgId(c))
    \/ \E b \in Managers : ScanningFinished(b)

SpecScan == Init /\ [][NextScan]_vars

\* The registry and the broadcast of StopDeviceCmd with its unobserved results.
NextStopAll ==
    \/ \E b \in Managers, d \in Devices : DeviceDiscovered(b, d)
    \/ \E d \in Devices : DeviceSelfRemoved(d)
    \/ \E b \in Managers, d \in Devices : ManagerDeviceRemoved(b, d)
    \/ \E c \in Routes : SendStopAllDevices(c, MsgId(c))
    \/ \E i \in 1..(MaxRoutes * MaxCounter), o \in {"ok", "failed"} : StopSettles(i, o)

SpecStopAll == Init /\ [][NextStopAll]_vars

\* The registry while Shutdown runs; a Disconnect that was invoked settles.
NextShutdown ==
    \/ \E b \in Managers, d \in Devices : DeviceDiscovered(b, d)
    \/ \E d \in Devices : DeviceSelfRemoved(d)
    \/ \E b \in Managers, d \in Devices : ManagerDeviceRemoved(b, d)
    \/ Shutdown
    \/ \E o \in {"Ok", "Error"} : DisconnectDone(o)

SpecShutdown ==
    Init /\ [][NextShutdown]_vars /\ WF_vars(\E o \in {"Ok", "Error"} : DisconnectDone(o))

\* The scan coordination with the discoveries of the backends.
NextDetach ==
    \/ NextScan
    \/ \E b \in Managers, d \in Devices : DeviceDiscovered(b, d)

SpecDetach == Init /\ [][NextDetach]_vars

\* Scans that end by themselves: no stop-scan is routed and no start fails, and
\* a backend that is scanning finishes after a while and its signal arrives.
NextFinish ==
    \/ ClearDeviceManagers
    \/ \E b \in Managers : AddDeviceManager(b)
    \/ \E c \in Calls : SendStartScanning(c, MsgId(c))
    \/ \E c \in Calls : StartSucceeds(c)
    \/ \E b \in Managers : ScanningFinished(b)

SpecFinish ==
    Init /\ [][NextFinish]_vars /\ \A b \in Managers : WF_vars(ScanningFinished(b))

\* The scan coordination with backends whose StopScanning() may fail.
NextStop ==
    \/ NextScan
    \/ \E c \in Calls, p \in 1..Cardinality(Managers), thrown \in BOOLEAN :
          SendStopScanningFails(c, MsgId(c), p, thrown)

SpecStop == Init /\ [][NextStop]_vars

\* ================================================================ claims
DeviceAdded(index, d) ==
    [Type |-> "DeviceAdded", DeviceIndex |-> index, DeviceName |-> Name(d),
     DeviceMessages |-> MessageSpecifications(d)]
DeviceRemoved(index) == [Type |-> "DeviceRemoved", DeviceIndex |-> index]
IsAdded(msg) == msg.Type = "DeviceAdded"
IsRemoved(msg) == msg.Type = "DeviceRemoved"
Live == {_devices[i].device : i \in 1..Len(_devices)}

\* C1: in every reachable state the registry holds at most one live mapping
\* per device identity token (and at most one per index).
C1_OneEntryPerIdentity ==
    \A i, j \in 1..Len(_devices) :
        (\/ Id(_devices[i].device) = Id(_devices[j].device)
         \/ _devices[i].index = _devices[j].index) => i = j

\* D1 was admitted and removed, D2 (same identity) admitted, and D1 was then
\* discovered again while D2 is live.
C1_Witness ==
    /\ last.op = "OnDeviceAdded" /\ last.device = "D1"
    /\ Live = {"D2"}
    /\ sent = <<DeviceAdded(0, "D1"), DeviceRemoved(0), DeviceAdded(1, "D2")>>

\* C2: the indices the registry assigns, in admission order (the order of the
\* device-added notifications), start at 0 and are strictly increasing, so no
\* index is assigned twice, also after evictions; every live mapping carries
\* the index it was admitted under, below the counter.
C2_IndicesNeverReused ==
    LET added == SelectSeq(sent, IsAdded) IN
    /\ Len(added) > 0 => added[1].DeviceIndex = 0
    /\ \A j, k \in 1..Len(added) : j < k => added[j].DeviceIndex < added[k].DeviceIndex
    /\ \A k \in 1..Len(added) : added[k].DeviceIndex < _deviceCounter
    /\ \A i \in 1..Len(_devices) :
          \E k \in 1..Len(added) :
              added[k] = DeviceAdded(_devices[i].index, _devices[i].device)

\* The same instance D1 was admitted, removed and admitted again.
C2_Witness ==
    /\ sent = <<DeviceAdded(0, "D1"), DeviceRemoved(0), DeviceAdded(1, "D1")>>
    /\ _devices = <<[index |-> 1, device |-> "D1"]>>

\* C3: a device-discovered signal whose device has the identity token of a
\* live entry changes neither the mapping nor the counter nor the removal
\* subscriptions and emits no notification.
C3_DuplicateIsNoOp ==
    [][(/\ last'.op = "OnDeviceAdded"
        /\ \E i \in 1..Len(_devices) : Id(_devices[i].device) = Id(last'.device))
       => /\ _devices' = _devices
          /\ _deviceCounter' = _deviceCounter
          /\ listening' = listening
          /\ sent' = sent]_vars

\* D1 is live and D2, another instance of the same identity, was discovered:
\* one entry, one device-added notification.
C3_Witness ==
    /\ last.op = "OnDeviceAdded" /\ last.device = "D2"
    /\ _devices = <<[index |-> 0, device |-> "D1"]>>
    /\ sent = <<DeviceAdded(0, "D1")>>
    /\ _deviceCounter = 1

ScanFinishedMsg == [Type |-> "ScanningFinished"]
IsScanFinished(msg) == msg.Type = "ScanningFinished"
\* The backends registered with the core.
Registered == Range(arr)
\* This step invokes StartScanning() of a backend for call c ...
Invokes(c) ==
    /\ calls'[c].pc = "awaitStart"
    /\ calls[c].pc = "awaitStart" => calls'[c].pos # calls[c].pos
\* ... on the array the loop of c iterates ...
InvokedArray(c) == IF calls'[c].detached THEN calls'[c].own ELSE arr'
\* ... namely of this backend.
InvokedMgr(c) == InvokedArray(c)[calls'[c].pos]
\* A start of backend b is in flight for call c after this step.
InFlight(c, b) == calls'[c].pc = "awaitStart" /\ InvokedMgr(c) = b

C5_OneScanFinished ==
    [][/\ last'.op = "OnScanningFinished" =>
            IF \E b \in Registered : IsScanning'[b]
            THEN sent' = sent
            ELSE sent' = Append(sent, ScanFinishedMsg)
       /\ (\E b \in Registered : IsScanning'[b]) =>
            Len(SelectSeq(sent', IsScanFinished)) = Len(SelectSeq(sent, IsScanFinished))
      ]_vars

\* Both backends were started by one start-scan and were scanning together;
\* both have finished, and the two finish signals produced one notification.
C5_Witness ==
    /\ last.op = "OnScanningFinished"
    /\ arr = <<"B1", "B2">>
    /\ calls[1].result = Ok(MsgId(1)) /\ calls[2].pc = "free"
    /\ startCount = [b \in Managers |-> 1]
    /\ stopCount = [b \in Managers |-> 0]
    /\ \A b \in Managers : ~IsScanning[b]
    /\ sent = <<ScanFinishedMsg>>

\* C6: StartScanning() of a backend is never invoked while that backend is
\* scanning or while an earlier start of it is still in flight.
C6_NoRacingStarts ==
    [][\A c \in Calls : Invokes(c) =>
          /\ ~IsScanning'[InvokedMgr(c)]
          /\ \A e \in Calls \ {c} : ~InFlight(e, InvokedMgr(c))]_vars

\* C7: within one start-scan the starts are sequential in registration order:
\* a call invokes one start per step, the next one only in the step in which
\* its previous start has completed successfully, at a later position, on a
\* backend that is not scanning, having skipped scanning backends only; and it
\* returns its acknowledgement only when no idle backend is left behind.
C7_Step(c) ==
    LET from == IF calls[c].pc = "awaitStart" THEN calls[c].pos + 1 ELSE 1 IN
    /\ Invokes(c) =>
         /\ calls[c].pc = "awaitStart" =>
                last' = Op("StartSucceeds", Awaited(c), "none", c)
         /\ calls[c].pc # "awaitStart" => calls[c].pc = "free"
         /\ calls'[c].pos >= from
         /\ ~IsScanning'[InvokedMgr(c)]
         /\ \A i \in from..(calls'[c].pos - 1) : IsScanning'[InvokedArray(c)[i]]
         /\ startCount' = [startCount EXCEPT ![InvokedMgr(c)] = @ + 1]
    /\ (calls[c].pc # "done" /\ calls'[c].pc = "done" /\ calls'[c].result = Ok(calls'[c].msg.Id)
        /\ calls'[c].msg.Type = "StartScanning") =>
         /\ \A i \in from..Len(InvokedArray(c)) : IsScanning'[InvokedArray(c)[i]]
         /\ startCount' = startCount

C7_SequentialStarts ==
    [][/\ \A c \in Calls : C7_Step(c)
       /\ startCount' # startCount => \E c \in Calls : Invokes(c)]_vars

\* The start of B1 has completed and the same call now awaits the start of B2.
C7_Witness ==
    /\ last.op = "StartSucceeds" /\ last.mgr = "B1" /\ last.call = 1
    /\ arr = <<"B1", "B2">>
    /\ calls[1].pc = "awaitStart" /\ calls[1].pos = 2
    /\ IsScanning["B1"] /\ ~IsScanning["B2"]
    /\ startCount = [b \in Managers |-> 1]

\* C8: a start-scan with no registered backend fails with the no-managers
\* device error carrying the message's Id, and changes nothing else: no start,
\* no stop, no notification, the registry and its counter as before.
C8_NoBackends ==
    [][\A c \in Calls :
          (/\ calls[c].pc = "free" /\ calls'[c].pc # "free"
           /\ calls'[c].msg.Type = "StartScanning"
           /\ Len(arr) = 0)
          => /\ calls'[c].pc = "done"
             /\ calls'[c].result =
                    Error("ButtplugDeviceException", "NoManagers", calls'[c].msg.Id)
             /\ UNCHANGED <<arr, IsScanning, attached, startCount, stopCount, _devices,
                            _deviceCounter, listening, sent, parsed>>]_vars

\* A start-scan was routed with no backend registered.
C8_Witness ==
    /\ last.op = "SendMessage" /\ last.call = 1
    /\ arr = <<>>
    /\ calls[1].msg.Type = "StartScanning"
    /\ calls[1].result = Error("ButtplugDeviceException", "NoManagers", MsgId(1))

\* C9: a device message whose kind the target device does not allow fails
\* with the not-allowed device error and ParseMessage is not invoked for it;
\* every routed message that reached a device is of a kind the device allows.
C9_Rejected(c) ==
    LET m == calls'[c].msg
        k == Lookup(_devices, m.DeviceIndex)
    IN (/\ calls[c].pc = "free" /\ calls'[c].pc # "free"
        /\ m.Type \notin FleetTypes /\ m.HasIndex
        /\ k # 0
        /\ m.Type \notin AllowedMessageTypes(_devices[k].device))
       => /\ calls'[c].pc = "done"
          /\ calls'[c].result = Error("ButtplugDeviceException", "NotAllowed", m.Id)
          /\ parsed' = parsed

C9_UnsupportedNeverReachesDevice ==
    /\ [](\A i \in 1..Len(parsed) :
            parsed[i].routed => parsed[i].Type \in AllowedMessageTypes(parsed[i].device))
    /\ [](\A c \in Routes :
            (calls[c].result.kind = "Error" /\ calls[c].result.why = "NotAllowed")
            => \A i \in 1..Len(parsed) : parsed[i].call # c)
    /\ [][\A c \in Routes : C9_Rejected(c)]_vars

\* A StopDeviceCmd for index 0 was routed while D3, which does not take it,
\* is the device at index 0.
C9_Witness ==
    /\ calls[1].result = Error("ButtplugDeviceException", "NotAllowed", MsgId(1))
    /\ calls[1].msg.Type = "StopDeviceCmd"
    /\ _devices = <<[index |-> 0, device |-> "D3"]>>

\* C10: a removed signal of a live instance removes exactly its mapping and
\* emits one device-removed notification with the index the instance was
\* admitted under; a removed signal of an instance that is not live changes
\* nothing and emits nothing.
C10_EvictExactlyOnce ==
    [][last'.op = "OnDeviceRemoved" =>
        LET d == last'.device IN
        IF d \in Live
        THEN \E k \in 1..Len(_devices) :
               /\ _devices[k].device = d
               /\ _devices' = SelectSeqBy(_devices, k)
               /\ sent' = Append(sent, DeviceRemoved(_devices[k].index))
               /\ \E j \in 1..Len(sent) : sent[j] = DeviceAdded(_devices[k].index, d)
               /\ _deviceCounter' = _deviceCounter
        ELSE /\ _devices' = _devices
             /\ sent' = sent
             /\ _deviceCounter' = _deviceCounter]_vars

\* D3 and D1 were admitted, D1 was removed: D3 is still live and one
\* device-removed notification, for index 1, was sent.
C10_Witness ==
    /\ last.op = "OnDeviceRemoved" /\ last.device = "D1"
    /\ _devices = <<[index |-> 0, device |-> "D3"]>>
    /\ sent = <<DeviceAdded(0, "D3"), DeviceAdded(1, "D1"), DeviceRemoved(1)>>

\* C11: a stop-scan invokes StopScanning() once on every registered backend
\* that is scanning and on no other, and returns the acknowledgement with the
\* message's Id, whatever the stops do.
C11_StopAllAlwaysAcks ==
    [][\A c \in Calls :
          (/\ calls[c].pc = "free" /\ calls'[c].pc # "free"
           /\ calls'[c].msg.Type = "StopScanning")
          => /\ stopCount' = CountStops(stopCount, {b \in Registered : IsScanning[b]})
             /\ calls'[c].pc = "done"
             /\ calls'[c].result = Ok(calls'[c].msg.Id)]_vars

\* The entries of parsed that the stop-all-devices call c added.
Broadcast(c) == {i \in 1..Len(parsed) : parsed[i].call = c /\ ~parsed[i].routed}

\* C12: a stop-all-devices message hands exactly one StopDeviceCmd to every
\* device that is live when it is routed and to no other, and returns Ok with
\* the message's Id in the same step, while all of those commands are still
\* pending; when one of the commands settles later, as a success or as a
\* failure, the responses of all calls and the registry stay as they are.
C12_StopAllDevicesFireAndForget ==
    [][/\ \A c \in Routes :
             (calls[c].pc = "free" /\ calls'[c].msg.Type = "StopAllDevices")
             => /\ \A d \in Devices :
                      Cardinality({i \in (Len(parsed) + 1)..Len(parsed') :
                                      parsed'[i].device = d})
                      = IF d \in Live THEN 1 ELSE 0
                /\ \A i \in (Len(parsed) + 1)..Len(parsed') :
                      /\ parsed'[i].Type = "StopDeviceCmd"
                      /\ parsed'[i].state = "pending"
                      /\ parsed'[i].call = c
                /\ SubSeq(parsed', 1, Len(parsed)) = parsed
                /\ calls'[c].pc = "done"
                /\ calls'[c].result = Ok(calls'[c].msg.Id)
                /\ UNCHANGED <<_devices, _deviceCounter, listening, sent>>
       /\ last'.op = "StopSettles"
             => UNCHANGED <<calls, _devices, _deviceCounter, listening, sent>>]_vars

\* A stop-all-devices call with two live devices has returned Ok, and one of
\* its two commands has failed since.
C12_Witness ==
    \E c \in Routes :
        /\ calls[c].msg.Type = "StopAllDevices"
        /\ calls[c].result = Ok(MsgId(c))
        /\ Cardinality(Broadcast(c)) = 2
        /\ \E i \in Broadcast(c) : parsed[i].state = "failed"
        /\ last.op = "StopSettles"

\* C13: a request-device-list message returns, in the same step and with the
\* message's Id, a list with exactly one entry (index, name, specifications)
\* per live mapping of the registry and no other entry, so none for an index
\* whose device was evicted, in ascending order of index; the registry and
\* the notifications stay as they are.
C13_DeviceListIsSnapshot ==
    [][\A c \in Routes :
          (calls[c].pc = "free" /\ calls'[c].msg.Type = "RequestDeviceList")
          => LET r == calls'[c].result IN
             /\ calls'[c].pc = "done"
             /\ r.kind = "DeviceList"
             /\ r.Id = calls'[c].msg.Id
             /\ Len(r.Devices) = Len(_devices)
             /\ \A k \in 1..Len(_devices) :
                   Cardinality({i \in 1..Len(r.Devices) :
                       r.Devices[i] = [DeviceIndex |-> _devices[k].index,
                                       DeviceName |-> Name(_devices[k].device),
                                       DeviceMessages |->
                                           MessageSpecifications(_devices[k].device)]}) = 1
             /\ \A i, j \in 1..Len(r.Devices) :
                   i < j => r.Devices[i].DeviceIndex < r.Devices[j].DeviceIndex
             /\ \A i \in 1..Len(r.Devices) :
                   DeviceRemoved(r.Devices[i].DeviceIndex) \notin Range(sent)
             /\ UNCHANGED <<_devices, _deviceCounter, listening, sent, parsed>>]_vars

\* A device list was returned after an eviction: it holds the one device that
\* is live and nothing of the evicted one.
C13_Witness ==
    \E c \in Routes :
        /\ last = Op("SendMessage", "none", "none", c)
        /\ calls[c].msg.Type = "RequestDeviceList"
        /\ Len(calls[c].result.Devices) = 1
        /\ \E i \in 1..Len(sent) : IsRemoved(sent[i])

LiveAt(index) == {_devices[i].device : i \in {j \in 1..Len(_devices) : _devices[j].index = index}}

\* C15: a message of no fleet-level kind is answered by the first check that
\* fails: without a DeviceIndex, the error of an unhandled message type; else,
\* with no live mapping at the index (so for the index of every evicted
\* device), the error of an unknown device; else, with a kind the device does
\* not allow, the error of an unsupported command; and in these three cases
\* no ParseMessage is invoked.  Otherwise ParseMessage of the device at that
\* index is invoked once with the message, and the call returns what that
\* ParseMessage gives, with no further invocation.  The registry and the
\* notifications never change.
C15_ChecksInOrder ==
    [][\A c \in Routes :
          /\ (calls[c].pc = "free" /\ calls'[c].pc # "free"
               /\ calls'[c].msg.Type \notin FleetTypes)
             => LET m == calls'[c].msg
                    r == calls'[c].result
                    failed(class, why) == /\ calls'[c].pc = "done"
                                          /\ r = Error(class, why, m.Id)
                                          /\ parsed' = parsed
                IN
                /\ UNCHANGED <<_devices, _deviceCounter, listening, sent>>
                /\ (DeviceRemoved(m.DeviceIndex) \in Range(sent)) => LiveAt(m.DeviceIndex) = {}
                /\ IF ~m.HasIndex
                   THEN failed("ButtplugMessageException", "Unhandled")
                   ELSE IF LiveAt(m.DeviceIndex) = {}
                   THEN failed("ButtplugDeviceException", "NoSuchDevice")
                   ELSE IF \E d \in LiveAt(m.DeviceIndex) : m.Type \notin AllowedMessageTypes(d)
                   THEN failed("ButtplugDeviceException", "NotAllowed")
                   ELSE /\ calls'[c].pc = "awaitParse"
                        /\ \E d \in LiveAt(m.DeviceIndex) :
                              parsed' = Append(parsed, [device |-> d, Type |-> m.Type, call |-> c,
                                                        routed |-> TRUE, state |-> "pending"])
          /\ (calls[c].pc = "awaitParse" /\ calls'[c].pc # "awaitParse")
             => /\ calls'[c].pc = "done"
                /\ Len(parsed') = Len(parsed)
                /\ \E i \in 1..Len(parsed) :
                      /\ parsed[i].call = c /\ parsed[i].routed
                      /\ calls'[c].result =
                            [kind |-> "FromDevice", Id |-> calls[c].msg.Id,
                             outcome |-> IF parsed'[i].state = "ok" THEN "Ok" ELSE "Error"]
                /\ UNCHANGED <<_devices, _deviceCounter, listening, sent>>]_vars

\* A message for the index of an evicted device was answered with the error
\* of an unknown device while another device was live.
C15_Witness ==
    \E c \in Routes :
        /\ calls[c].result = Error("ButtplugDeviceException", "NoSuchDevice", MsgId(c))
        /\ calls[c].msg.HasIndex
        /\ DeviceRemoved(calls[c].msg.DeviceIndex) \in Range(sent)
        /\ Live # {}
        /\ last = Op("SendMessage", "none", "none", c)

\* The backends after the one call c is awaiting, in the order of its loop:
\* those the loop has not reached.
Unreached(c) ==
    {LoopArray(c)[i] : i \in (calls[c].pos + 1)..Len(LoopArray(c))}

C17_EvictByInstance ==
    [][(last'.op = "OnDeviceRemoved" /\ last'.device \notin Live)
       => UNCHANGED <<_devices, _deviceCounter, listening, sent>>]_vars

\* D1 is live; a backend signalled the removal of D2, another instance with
\* the identity token of D1: D1 is still live and subscribed, nothing was sent.
C17_Witness ==
    /\ last.op = "OnDeviceRemoved" /\ last.device = "D2"
    /\ Id("D2") = Id("D1")
    /\ _devices = <<[index |-> 0, device |-> "D1"]>>
    /\ "D1" \in listening
    /\ sent = <<DeviceAdded(0, "D1")>>

\* The indices of the live mappings of the registry.
LiveIndices == {_devices[i].index : i \in 1..Len(_devices)}
\* The positions in sent of the device-added, device-removed notifications
\* for index.
AddedAt(index) == {j \in 1..Len(sent) : IsAdded(sent[j]) /\ sent[j].DeviceIndex = index}
RemovedAt(index) == {j \in 1..Len(sent) : IsRemoved(sent[j]) /\ sent[j].DeviceIndex = index}

\* C18: for every index, at most one device-added and at most one
\* device-removed notification is sent, the device-removed one after the
\* device-added one; the live indices are at every moment those with a
\* device-added and no device-removed notification; a device-removed
\* notification is sent only for an index that was live just before, and sent
\* notifications are never taken back.
C18_NotificationsWellFormed ==
    /\ [](\A index \in 0..MaxCounter :
            /\ Cardinality(AddedAt(index)) <= 1
            /\ Cardinality(RemovedAt(index)) <= 1
            /\ \A r \in RemovedAt(index) : \E a \in AddedAt(index) : a < r
            /\ index \in LiveIndices <=> (AddedAt(index) # {} /\ RemovedAt(index) = {}))
    /\ [][/\ Len(sent') >= Len(sent)
          /\ SubSeq(sent', 1, Len(sent)) = sent
          /\ \A j \in (Len(sent) + 1)..Len(sent') :
                IsRemoved(sent'[j]) => sent'[j].DeviceIndex \in LiveIndices]_vars

\* D1 was admitted with index 0, evicted and admitted again with index 1: one
\* notification each, and index 1 alone is live.
C18_Witness ==
    /\ sent = <<DeviceAdded(0, "D1"), DeviceRemoved(0), DeviceAdded(1, "D1")>>
    /\ LiveIndices = {1}
    /\ last.op = "OnDeviceAdded"

\* C19: after ClearDeviceManagers the backends it dropped are detached: a
\* discovery arriving while no backend is registered changes neither the
\* registry nor the notifications, a finish signal of a backend that is not
\* registered sends no scan-finished notification, and when a start-scan that
\* was in flight at the clearing fails, no backend it started is scanning
\* when it returns.
C19_ClearDetaches ==
    [][/\ (last'.op = "OnDeviceAdded" /\ Registered = {})
            => UNCHANGED <<_devices, _deviceCounter, listening, sent>>
       /\ (last'.op = "OnScanningFinished" /\ last'.mgr \notin Registered)
            => sent' = sent
       /\ \A c \in Calls :
             (last'.op = "StartFails" /\ last'.call = c /\ calls[c].detached)
             => \A b \in calls[c].started : ~IsScanning'[b]]_vars

\* The number of scan-finished notifications sent so far.
NumFinished == Len(SelectSeq(sent, IsScanFinished))
\* A start-scan has returned Ok in the step that led here.
StartReturnedOk ==
    /\ last.op \in {"SendMessage", "StartSucceeds"}
    /\ calls[last.call].msg.Type = "StartScanning"
    /\ calls[last.call].result = Ok(calls[last.call].msg.Id)

\* C20: when every scan ends by the backend's own finish signal and these
\* signals are delivered, a scan-finished notification is sent after every
\* start-scan that returned Ok.
C20_ScanFinishedEventually ==
    \A n \in 0..(MaxCalls * Cardinality(Managers)) :
        (StartReturnedOk /\ NumFinished = n) ~> (NumFinished > n)

\* B1 alone was registered and started by a start-scan that returned Ok; it
\* has finished, and its signal produced the scan-finished notification.
C20_Witness ==
    /\ last = Op("OnScanningFinished", "B1", "none", 0)
    /\ arr = <<"B1">>
    /\ calls[1].result = Ok(MsgId(1))
    /\ calls[1].started = {"B1"}
    /\ sent = <<ScanFinishedMsg>>
====
